---- MODULE Spec2Model ----
(***************************************************************************)
(* Model of lib/send_mqtt_ping.py: a script that configures a paho-mqtt    *)
(* client, connects to io.adafruit.com over TLS, starts the client's       *)
(* background network loop, sleeps, publishes "true" to                    *)
(* <ADA_USERNAME>/feeds/<FEED_KEY>, sleeps, stops the loop, disconnects.   *)
(*                                                                         *)
(* Three processes interleave: main() (one action per source line), the    *)
(* network loop thread started by loop_start(), and the broker.  The       *)
(* script contains no synchronisation between them besides loop_stop()'s   *)
(* join, and both sleeps are plain steps: whatever the loop thread and the *)
(* broker manage to do during a sleep is an interleaving of the model.     *)
(*                                                                         *)
(* Strings are sequences of one-character strings so that the UTF-8        *)
(* encoding done by publish() and the decoding done by a capturing broker  *)
(* are real conversions.                                                   *)
(***************************************************************************)
EXTENDS Integers, Sequences, FiniteSets, TLC

VARIABLES
    pc,              \* main(): the source line about to run, "done" or "crashed"
    exitCode,        \* process exit status: 0 or 1, and -1 while it runs
    created,         \* the Client object exists
    creds,           \* the client's username and password, and whether set
    tlsContext,      \* "none" or "system_ca"
    tlsInsecure,     \* the client's _tls_insecure flag
    onConnectSet,    \* client.on_connect is on_connect
    sock,            \* the client's transport: "none" or "open"
    connState,       \* "new", "connected" or "disconnecting"
    thread,          \* the loop thread: "none", "running" or "dead"
    threadTerminate, \* the flag loop_stop() raises
    outPacket,       \* packets queued for the loop thread to write
    reconnects,      \* reconnect attempts made by the loop thread
    publishRc,       \* the value publish() returned (and main() dropped)
    sent,            \* every packet written to a transport, in order
    brokerPos,       \* how many packets of sent the broker has processed
    bsession,        \* broker side of the session: "none", "accepted", "refused"
    inbox,           \* CONNACK return codes the broker sent, not yet read
    captured,        \* messages the broker accepted, decoded
    stdout,          \* lines printed
    trace,           \* client API calls and callbacks, in order
    opens,           \* transports opened
    closes,          \* transports closed
    tlsLog           \* the TLS settings and credentials used for each open

vars == <<pc, exitCode, created, creds, tlsContext, tlsInsecure, onConnectSet,
          sock, connState, thread, threadTerminate, outPacket, reconnects,
          publishRc, sent, brokerPos, bsession, inbox, captured, stdout,
          trace, opens, closes, tlsLog>>

mainVars == <<pc, exitCode>>
configVars == <<created, creds, tlsContext, tlsInsecure, onConnectSet>>
brokerVars == <<brokerPos, bsession, inbox, captured>>

----------------------------------------------------------------------------
(* Bounds *)

\* Reconnect attempts the loop thread may make in one run.
MaxReconnects == 2

----------------------------------------------------------------------------
(* Module-level constants of the script, lines 12-19 *)

ADA_USERNAME == <<>>
ADA_KEY == <<>>
FEED_KEY == <<"b", "e", "e", "p", "e", "r">>
BROKER == "io.adafruit.com"
PORT == 8883

\* f"{a}/feeds/{b}"
FeedTopic(a, b) == a \o <<"/", "f", "e", "e", "d", "s", "/">> \o b

\* A topic that leaves out the "/feeds/" part.
TopicNoSeparator == ADA_USERNAME \o FEED_KEY

\* 19: topic = f"{ADA_USERNAME}/feeds/{FEED_KEY}"
topic == FeedTopic(ADA_USERNAME, FEED_KEY)

\* 38: the literal "true"
payload == <<"t", "r", "u", "e">>

\* UTF-8 code of each character the script's strings use.
Ord == [c \in {"/", "b", "d", "e", "f", "p", "r", "s", "t", "u"} |->
          CASE c = "/" -> 47
            [] c = "b" -> 98
            [] c = "d" -> 100
            [] c = "e" -> 101
            [] c = "f" -> 102
            [] c = "p" -> 112
            [] c = "r" -> 114
            [] c = "s" -> 115
            [] c = "t" -> 116
            [] c = "u" -> 117]

\* str.encode("utf-8"), as publish() applies it to the topic and the payload.
Utf8Encode(s) == [i \in 1..Len(s) |-> Ord[s[i]]]

\* bytes.decode("utf-8"), as a capturing broker reads a packet.
Utf8Decode(b) == [i \in 1..Len(b) |-> CHOOSE c \in DOMAIN Ord : Ord[c] = b[i]]

\* CONNACK return codes: 0 accepted, 4 bad user name or password,
\* 5 not authorised.
ConnackCodes == {0, 4, 5}

\* What the blocking connect() can do: return, or raise.
ConnectOutcomes == {"ok", "network_error", "tls_error"}

Ev(name, rc) == [ev |-> name, rc |-> rc]

ConnectPacket == [type |-> "CONNECT", topic |-> <<>>, payload |-> <<>>]
DisconnectPacket == [type |-> "DISCONNECT", topic |-> <<>>, payload |-> <<>>]
PublishPacket(t, p) ==
    [type |-> "PUBLISH", topic |-> Utf8Encode(t), payload |-> Utf8Encode(p)]

\* What a transport is opened with.
TlsSettings ==
    [ca |-> tlsContext, insecure |-> tlsInsecure, creds |-> creds,
     host |-> BROKER, port |-> PORT]

----------------------------------------------------------------------------
(* The state when main() is entered *)

Init ==
    /\ pc = "l29"
    /\ exitCode = -1
    /\ created = FALSE
    /\ creds = [set |-> FALSE, username |-> <<>>, password |-> <<>>]
    /\ tlsContext = "none"
    /\ tlsInsecure = FALSE
    /\ onConnectSet = FALSE
    /\ sock = "none"
    /\ connState = "new"
    /\ thread = "none"
    /\ threadTerminate = FALSE
    /\ outPacket = <<>>
    /\ reconnects = 0
    /\ publishRc = "none"
    /\ sent = <<>>
    /\ brokerPos = 0
    /\ bsession = "none"
    /\ inbox = <<>>
    /\ captured = <<>>
    /\ stdout = <<>>
    /\ trace = <<>>
    /\ opens = 0
    /\ closes = 0
    /\ tlsLog = <<>>

----------------------------------------------------------------------------
(* main(), lines 28-42 *)

\* 29: client = mqtt_client.Client(client_id=client_id)
NewClient ==
    /\ pc = "l29"
    /\ created' = TRUE
    /\ trace' = Append(trace, Ev("Client", 0))
    /\ pc' = "l30"
    /\ UNCHANGED <<exitCode, creds, tlsContext, tlsInsecure, onConnectSet,
                   sock, connState, thread, threadTerminate, outPacket,
                   reconnects, publishRc, sent, brokerVars, stdout, opens,
                   closes, tlsLog>>

\* 30: client.username_pw_set(ADA_USERNAME, ADA_KEY)
UsernamePwSet ==
    /\ pc = "l30"
    /\ creds' = [set |-> TRUE, username |-> ADA_USERNAME, password |-> ADA_KEY]
    /\ trace' = Append(trace, Ev("username_pw_set", 0))
    /\ pc' = "l31"
    /\ UNCHANGED <<exitCode, created, tlsContext, tlsInsecure, onConnectSet,
                   sock, connState, thread, threadTerminate, outPacket,
                   reconnects, publishRc, sent, brokerVars, stdout, opens,
                   closes, tlsLog>>

\* 31: client.tls_set(): the default context, system CA certificates,
\* certificate required; tls_set() itself resets the insecure flag.
TlsSet ==
    /\ pc = "l31"
    /\ tlsContext' = "system_ca"
    /\ tlsInsecure' = FALSE
    /\ trace' = Append(trace, Ev("tls_set", 0))
    /\ pc' = "l32"
    /\ UNCHANGED <<exitCode, created, creds, onConnectSet,
                   sock, connState, thread, threadTerminate, outPacket,
                   reconnects, publishRc, sent, brokerVars, stdout, opens,
                   closes, tlsLog>>

\* The flag as the comment on line 32 invites to set it.
InsecureFlagTrue == TRUE

\* 32: the argument of tls_insecure_set
InsecureFlag == FALSE

\* 32: client.tls_insecure_set(False); raises ValueError without a context.
TlsInsecureSet ==
    /\ pc = "l32"
    /\ trace' = Append(trace, Ev("tls_insecure_set", 0))
    /\ IF tlsContext = "none"
         THEN /\ pc' = "crashed"
              /\ exitCode' = 1
              /\ UNCHANGED tlsInsecure
         ELSE /\ pc' = "l33"
              /\ tlsInsecure' = InsecureFlag
              /\ UNCHANGED exitCode
    /\ UNCHANGED <<created, creds, tlsContext, onConnectSet,
                   sock, connState, thread, threadTerminate, outPacket,
                   reconnects, publishRc, sent, brokerVars, stdout, opens,
                   closes, tlsLog>>

\* 33: client.on_connect = on_connect
SetOnConnect ==
    /\ pc = "l33"
    /\ onConnectSet' = TRUE
    /\ pc' = "l34"
    /\ UNCHANGED <<exitCode, created, creds, tlsContext, tlsInsecure,
                   sock, connState, thread, threadTerminate, outPacket,
                   reconnects, publishRc, sent, brokerVars, stdout, trace,
                   opens, closes, tlsLog>>

\* 34: client.connect(BROKER, PORT): blocking.  It opens the TCP
\* connection, runs the TLS handshake, writes CONNECT and returns, or it
\* raises (unreachable host, failed handshake) and the exception leaves
\* main(): the interpreter exits with status 1.  No loop thread exists yet,
\* so CONNECT is written by the caller.
Connect ==
    /\ pc = "l34"
    /\ \E outcome \in ConnectOutcomes :
         /\ trace' = Append(trace, Ev("connect", IF outcome = "ok" THEN 0 ELSE 1))
         /\ IF outcome = "ok"
              THEN /\ sock' = "open"
                   /\ opens' = opens + 1
                   /\ tlsLog' = Append(tlsLog, TlsSettings)
                   /\ sent' = Append(sent, ConnectPacket)
                   /\ pc' = "l35"
                   /\ UNCHANGED exitCode
              ELSE /\ pc' = "crashed"
                   /\ exitCode' = 1
                   /\ UNCHANGED <<sock, opens, tlsLog, sent>>
    /\ UNCHANGED <<configVars, connState, thread, threadTerminate, outPacket,
                   reconnects, publishRc, brokerVars, stdout, closes>>

\* 35: client.loop_start()
LoopStart ==
    /\ pc = "l35"
    /\ thread' = "running"
    /\ threadTerminate' = FALSE
    /\ trace' = Append(trace, Ev("loop_start", 0))
    /\ pc' = "l36"
    /\ UNCHANGED <<exitCode, configVars, sock, connState, outPacket,
                   reconnects, publishRc, sent, brokerVars, stdout, opens,
                   closes, tlsLog>>

\* A wait for the session instead of a wait for the clock.
Sleep1UntilConnected ==
    /\ pc = "l36"
    /\ connState = "connected"
    /\ pc' = "l37"
    /\ UNCHANGED <<exitCode, configVars, sock, connState, thread,
                   threadTerminate, outPacket, reconnects, publishRc, sent,
                   brokerVars, stdout, trace, opens, closes, tlsLog>>

\* 36: time.sleep(1): returns after the delay, whatever happened meanwhile.
Sleep1 ==
    /\ pc = "l36"
    /\ pc' = "l37"
    /\ UNCHANGED <<exitCode, configVars, sock, connState, thread,
                   threadTerminate, outPacket, reconnects, publishRc, sent,
                   brokerVars, stdout, trace, opens, closes, tlsLog>>

\* 37: print("Publishing 'true' to", topic)
PrintPublishing ==
    /\ pc = "l37"
    /\ stdout' = Append(stdout, [line |-> "Publishing", rc |-> 0])
    /\ pc' = "l38"
    /\ UNCHANGED <<exitCode, configVars, sock, connState, thread,
                   threadTerminate, outPacket, reconnects, publishRc, sent,
                   brokerVars, trace, opens, closes, tlsLog>>

\* publish() with the default qos=0 on a client whose queue is q: one
\* PUBLISH packet carrying the encoded topic and payload is queued.
QueuePublishTwice(q) ==
    Append(Append(q, PublishPacket(topic, payload)), PublishPacket(topic, payload))

QueuePublish(q) == Append(q, PublishPacket(topic, payload))

\* 38: client.publish(topic, "true").  ValueError on an empty topic;
\* MQTT_ERR_NO_CONN, and nothing queued, when the client has no transport;
\* otherwise the packet is queued (written by the caller when no loop
\* thread runs) and MQTT_ERR_SUCCESS is returned at once.  main() drops the
\* returned value.
Publish ==
    /\ pc = "l38"
    /\ trace' = Append(trace, Ev("publish", 0))
    /\ IF Len(topic) = 0
         THEN /\ pc' = "crashed"
              /\ exitCode' = 1
              /\ UNCHANGED <<publishRc, outPacket, sent>>
         ELSE /\ pc' = "l39"
              /\ UNCHANGED exitCode
              /\ IF sock = "none"
                   THEN /\ publishRc' = "NO_CONN"
                        /\ UNCHANGED <<outPacket, sent>>
                   ELSE /\ publishRc' = "SUCCESS"
                        /\ IF thread = "running"
                             THEN /\ outPacket' = QueuePublish(outPacket)
                                  /\ UNCHANGED sent
                             ELSE /\ sent' = sent \o QueuePublish(outPacket)
                                  /\ outPacket' = <<>>
    /\ UNCHANGED <<configVars, sock, connState, thread, threadTerminate,
                   reconnects, brokerVars, stdout, opens, closes, tlsLog>>

\* A wait that publishes again when the publish did not go out.
Sleep2Retry ==
    /\ pc = "l39"
    /\ pc' = IF publishRc = "NO_CONN" THEN "l37" ELSE "l40"
    /\ UNCHANGED <<exitCode, configVars, sock, connState, thread,
                   threadTerminate, outPacket, reconnects, publishRc, sent,
                   brokerVars, stdout, trace, opens, closes, tlsLog>>

\* 39: time.sleep(1)
Sleep2 ==
    /\ pc = "l39"
    /\ pc' = "l40"
    /\ UNCHANGED <<exitCode, configVars, sock, connState, thread,
                   threadTerminate, outPacket, reconnects, publishRc, sent,
                   brokerVars, stdout, trace, opens, closes, tlsLog>>

\* 40: client.loop_stop(): raises the terminate flag, then joins the thread.
LoopStop ==
    /\ pc = "l40"
    /\ threadTerminate' = TRUE
    /\ trace' = Append(trace, Ev("loop_stop", 0))
    /\ pc' = IF thread = "none" THEN "l41" ELSE "l40_join"
    /\ UNCHANGED <<exitCode, configVars, sock, connState, thread, outPacket,
                   reconnects, publishRc, sent, brokerVars, stdout, opens,
                   closes, tlsLog>>

\* 40: the join inside loop_stop() returns once the thread has ended.
LoopJoin ==
    /\ pc = "l40_join"
    /\ thread = "dead"
    /\ thread' = "none"
    /\ pc' = "l41"
    /\ UNCHANGED <<exitCode, configVars, sock, connState, threadTerminate,
                   outPacket, reconnects, publishRc, sent, brokerVars, stdout,
                   trace, opens, closes, tlsLog>>

\* A disconnect that only queues DISCONNECT and leaves the close to a loop
\* thread that no longer runs.
DisconnectLeavesOpen ==
    /\ pc = "l41"
    /\ connState' = "disconnecting"
    /\ trace' = Append(trace, Ev("disconnect", 0))
    /\ outPacket' = IF sock = "none" THEN outPacket
                    ELSE Append(outPacket, DisconnectPacket)
    /\ pc' = "l42"
    /\ UNCHANGED <<exitCode, configVars, sock, thread, threadTerminate, sent,
                   closes, reconnects, publishRc, brokerVars, stdout, opens,
                   tlsLog>>

\* 41: client.disconnect().  With no transport it returns MQTT_ERR_NO_CONN.
\* Otherwise, no loop thread being left, the caller writes what is queued
\* and DISCONNECT, and the transport is closed once DISCONNECT is written.
Disconnect ==
    /\ pc = "l41"
    /\ connState' = "disconnecting"
    /\ trace' = Append(trace, Ev("disconnect", 0))
    /\ IF sock = "none"
         THEN UNCHANGED <<sock, sent, outPacket, closes>>
         ELSE /\ sent' = (sent \o outPacket) \o <<DisconnectPacket>>
              /\ outPacket' = <<>>
              /\ sock' = "none"
              /\ closes' = closes + 1
    /\ pc' = "l42"
    /\ UNCHANGED <<exitCode, configVars, thread, threadTerminate,
                   reconnects, publishRc, brokerVars, stdout, opens, tlsLog>>

\* 42: print("Done."); main() returns and the script exits with status 0.
PrintDone ==
    /\ pc = "l42"
    /\ stdout' = Append(stdout, [line |-> "Done.", rc |-> 0])
    /\ pc' = "done"
    /\ exitCode' = 0
    /\ UNCHANGED <<configVars, sock, connState, thread, threadTerminate,
                   outPacket, reconnects, publishRc, sent, brokerVars, trace,
                   opens, closes, tlsLog>>

MainNext ==
    \/ NewClient
    \/ UsernamePwSet
    \/ TlsSet
    \/ TlsInsecureSet
    \/ SetOnConnect
    \/ Connect
    \/ LoopStart
    \/ Sleep1
    \/ PrintPublishing
    \/ Publish
    \/ Sleep2
    \/ LoopStop
    \/ LoopJoin
    \/ Disconnect
    \/ PrintDone

----------------------------------------------------------------------------
(* The loop thread started on line 35, which runs on_connect, lines 22-26 *)

\* 22-26: what on_connect prints for return code rc.
on_connect(rc) ==
    IF rc = 0
      THEN [line |-> "Connected to MQTT broker", rc |-> 0]
      ELSE [line |-> "Failed to connect, rc:", rc |-> rc]

\* The loop reads a CONNACK: it calls on_connect with the return code; a
\* code of 0 makes the session connected, any other code ends the
\* connection, which the loop closes.
LoopRead ==
    /\ thread = "running"
    /\ sock = "open"
    /\ inbox # <<>>
    /\ LET rc == Head(inbox) IN
         /\ inbox' = Tail(inbox)
         /\ trace' = Append(trace, Ev("on_connect", rc))
         /\ stdout' = IF onConnectSet THEN Append(stdout, on_connect(rc))
                      ELSE stdout
         /\ IF rc = 0
              THEN /\ connState' = "connected"
                   /\ UNCHANGED <<sock, closes>>
              ELSE /\ sock' = "none"
                   /\ closes' = closes + 1
                   /\ UNCHANGED connState
    /\ UNCHANGED <<mainVars, configVars, thread, threadTerminate, outPacket,
                   reconnects, publishRc, sent, brokerPos, bsession, captured,
                   opens, tlsLog>>

\* The loop writes the first queued packet to the transport.
LoopWrite ==
    /\ thread = "running"
    /\ sock = "open"
    /\ outPacket # <<>>
    /\ sent' = Append(sent, Head(outPacket))
    /\ outPacket' = Tail(outPacket)
    /\ UNCHANGED <<mainVars, configVars, sock, connState, thread,
                   threadTerminate, reconnects, publishRc, brokerVars, stdout,
                   trace, opens, closes, tlsLog>>

\* The loop lost its connection and, after its reconnect delay, connects
\* again with the client's settings; what was queued is discarded.  A
\* failed attempt leaves the client without a transport.
LoopReconnect ==
    /\ thread = "running"
    /\ sock = "none"
    /\ ~threadTerminate
    /\ connState # "disconnecting"
    /\ reconnects < MaxReconnects
    /\ reconnects' = reconnects + 1
    /\ \E outcome \in ConnectOutcomes :
         /\ trace' = Append(trace, Ev("reconnect", IF outcome = "ok" THEN 0 ELSE 1))
         /\ IF outcome = "ok"
              THEN /\ sock' = "open"
                   /\ opens' = opens + 1
                   /\ tlsLog' = Append(tlsLog, TlsSettings)
                   /\ sent' = Append(sent, ConnectPacket)
                   /\ outPacket' = <<>>
                   /\ inbox' = <<>>
                   /\ connState' = "new"
              ELSE UNCHANGED <<sock, opens, tlsLog, sent, outPacket, inbox,
                               connState>>
    /\ UNCHANGED <<mainVars, configVars, thread, threadTerminate, publishRc,
                   brokerPos, bsession, captured, stdout, closes>>

\* The loop ends once loop_stop() raised the flag and nothing it could
\* still write is queued.
LoopExit ==
    /\ thread = "running"
    /\ threadTerminate
    /\ outPacket = <<>> \/ sock = "none"
    /\ thread' = "dead"
    /\ UNCHANGED <<mainVars, configVars, sock, connState, threadTerminate,
                   outPacket, reconnects, publishRc, sent, brokerVars, stdout,
                   trace, opens, closes, tlsLog>>

LoopNext ==
    \/ LoopRead
    \/ LoopWrite
    \/ LoopReconnect
    \/ LoopExit

----------------------------------------------------------------------------
(* The broker at BROKER:PORT, which reads what the client wrote, in order *)

BrokerHas(type) ==
    /\ brokerPos < Len(sent)
    /\ sent[brokerPos + 1].type = type

\* CONNECT: the broker answers with a CONNACK of its choosing.  A broker
\* that never answers is one that never takes this step.
BrokerConnect ==
    /\ BrokerHas("CONNECT")
    /\ brokerPos' = brokerPos + 1
    /\ \E rc \in ConnackCodes :
         /\ inbox' = Append(inbox, rc)
         /\ bsession' = IF rc = 0 THEN "accepted" ELSE "refused"
    /\ UNCHANGED <<mainVars, configVars, sock, connState, thread,
                   threadTerminate, outPacket, reconnects, publishRc, sent,
                   captured, stdout, trace, opens, closes, tlsLog>>

\* PUBLISH: delivered to the feed on an accepted session, dropped otherwise.
BrokerPublish ==
    /\ BrokerHas("PUBLISH")
    /\ brokerPos' = brokerPos + 1
    /\ LET p == sent[brokerPos + 1] IN
         captured' = IF bsession = "accepted"
                       THEN Append(captured, [topic |-> Utf8Decode(p.topic),
                                              payload |-> Utf8Decode(p.payload)])
                       ELSE captured
    /\ UNCHANGED <<mainVars, configVars, sock, connState, thread,
                   threadTerminate, outPacket, reconnects, publishRc, sent,
                   bsession, inbox, stdout, trace, opens, closes, tlsLog>>

\* DISCONNECT: the session ends.
BrokerDisconnect ==
    /\ BrokerHas("DISCONNECT")
    /\ brokerPos' = brokerPos + 1
    /\ bsession' = "none"
    /\ UNCHANGED <<mainVars, configVars, sock, connState, thread,
                   threadTerminate, outPacket, reconnects, publishRc, sent,
                   inbox, captured, stdout, trace, opens, closes, tlsLog>>

BrokerNext ==
    \/ BrokerConnect
    \/ BrokerPublish
    \/ BrokerDisconnect

----------------------------------------------------------------------------

Next ==
    \/ MainNext
    \/ LoopNext
    \/ BrokerNext

Spec == Init /\ [][Next]_vars

\* main() is a running thread and so is the loop: each takes its next step
\* when it has one.  Nothing is assumed of the broker.
FairSpec == Spec /\ WF_vars(MainNext) /\ WF_vars(LoopNext)

----------------------------------------------------------------------------
(* Vocabulary of the properties *)

Calls(name) == {i \in DOMAIN trace : trace[i].ev = name}
Refusals == {i \in DOMAIN trace : trace[i].ev = "on_connect" /\ trace[i].rc # 0}
Acceptances == {i \in DOMAIN trace : trace[i].ev = "on_connect" /\ trace[i].rc = 0}
Ended == pc \in {"done", "crashed"}

\* PUBLISH packets written to a transport so far.
PublishWrites == Cardinality({i \in DOMAIN sent : sent[i].type = "PUBLISH"})

\* PUBLISH packets handed to the client and not yet processed by the broker.
PublishInFlight ==
    Cardinality({i \in DOMAIN outPacket : outPacket[i].type = "PUBLISH"})
    + Cardinality({i \in DOMAIN sent : i > brokerPos /\ sent[i].type = "PUBLISH"})

\* Lines that on_connect and main() print.
KnownLines ==
    {"Connected to MQTT broker", "Failed to connect, rc:", "Publishing", "Done."}

PublishOrdered ==
    /\ \A i \in Calls("publish") :
         /\ \E j \in Calls("connect") : j < i
         /\ \A k \in Calls("disconnect") : i < k
    /\ PublishInFlight <= 1

----------------------------------------------------------------------------
(* C1 *)

\* C1 as stated: every run of main() that has ended issued exactly one
\* publish, after the connect call and before the disconnect call, and at
\* most one publish is in flight.
C1_ExactlyOnePublishInEveryRun ==
    /\ PublishOrdered
    /\ Cardinality(Calls("publish")) <= 1
    /\ Ended => Cardinality(Calls("publish")) = 1

\* C1 amended: a run in which connect() returned issues exactly one
\* publish, after the connect call and before the disconnect call; a run in
\* which connect() raised issues none; at most one publish is ever in flight.
C1_OnePublishWhenConnectReturns ==
    /\ PublishOrdered
    /\ Cardinality(Calls("publish")) <= 1
    /\ pc = "done" => Cardinality(Calls("publish")) = 1
    /\ pc = "crashed" => Cardinality(Calls("publish")) = 0
    /\ pc \in {"l39", "l40", "l40_join", "l41", "l42"}
         => Cardinality(Calls("publish")) = 1

C1_Witness ==
    /\ pc = "done"
    /\ Cardinality(Calls("publish")) = 1
    /\ Calls("disconnect") # {}

----------------------------------------------------------------------------
(* C2 *)

\* C2 as stated: a publish is issued only after on_connect was invoked with
\* rc = 0, never while the session is still connecting and never after the
\* connection attempt failed.
C2_PublishOnlyWhenEstablished ==
    \A i \in Calls("publish") :
        /\ \E j \in Acceptances : j < i
        /\ \A j \in Refusals : i < j

----------------------------------------------------------------------------
(* C3 *)

\* C3 as stated: the process ends with exit code 0 only when the publish
\* went out on an accepted session, and it ends with a non-zero exit code
\* when the connection was refused, when connect() raised, or when the
\* publish was not delivered.
C3_ExitZeroOnlyOnConfirmedPublish ==
    /\ exitCode = 0 =>
         /\ Acceptances # {}
         /\ Refusals = {}
         /\ publishRc = "SUCCESS"
    /\ Ended /\ (Refusals # {} \/ publishRc # "SUCCESS") => exitCode = 1

----------------------------------------------------------------------------
(* C4 *)

\* C4 as stated: once on_connect was invoked with rc # 0, no publish is
\* issued and no further connection attempt is made.
C4_NothingAfterRejection ==
    \A i \in Refusals :
        \A k \in DOMAIN trace :
            k > i => trace[k].ev \notin {"publish", "connect", "reconnect"}

----------------------------------------------------------------------------
(* C5 *)

\* C5: a run of main() that opened a transport ends with the loop thread
\* stopped and every opened transport closed; after the disconnect call no
\* transport is open, also when the connection was refused or the publish
\* returned an error.
C5_NoTransportLeak ==
    /\ Ended =>
         /\ thread = "none"
         /\ sock = "none"
         /\ closes = opens
    /\ Calls("disconnect") # {} => sock = "none" /\ thread = "none"
    /\ sock = "open" <=> opens = closes + 1
    /\ sock = "none" <=> opens = closes

C5_Witness ==
    /\ pc = "done"
    /\ Refusals # {}
    /\ opens >= 2
    /\ closes = opens
    /\ publishRc = "NO_CONN"

----------------------------------------------------------------------------
(* C6 *)

\* C6: when connect() is called, and whenever a transport is opened or the
\* publish is issued, TLS is configured with the system CA certificates,
\* the insecure flag is false and the credentials are set.
C6_CertificateValidationOn ==
    /\ pc \in {"l34", "l38"} =>
         /\ tlsContext = "system_ca"
         /\ tlsInsecure = FALSE
         /\ creds.set
    /\ \A i \in DOMAIN tlsLog :
         /\ tlsLog[i].ca = "system_ca"
         /\ tlsLog[i].insecure = FALSE
         /\ tlsLog[i].creds.set

C6_Witness ==
    /\ Len(tlsLog) >= 2
    /\ Calls("reconnect") # {}
    /\ Calls("publish") # {}

----------------------------------------------------------------------------
(* C7 *)

\* C7: every message the broker captures, and every PUBLISH packet written,
\* carries the topic "<ADA_USERNAME>/feeds/beeper" and the payload "true",
\* byte for byte.
C7_CapturedEqualsPublished ==
    /\ \A i \in DOMAIN captured :
         /\ captured[i].topic =
              ADA_USERNAME \o <<"/", "f", "e", "e", "d", "s", "/",
                                "b", "e", "e", "p", "e", "r">>
         /\ captured[i].payload = <<"t", "r", "u", "e">>
    /\ \A i \in DOMAIN sent :
         sent[i].type = "PUBLISH" =>
           /\ sent[i].topic =
                <<47, 102, 101, 101, 100, 115, 47, 98, 101, 101, 112, 101, 114>>
           /\ sent[i].payload = <<116, 114, 117, 101>>

C7_Witness ==
    /\ Len(captured) = 1
    /\ pc = "done"

----------------------------------------------------------------------------
(* C8 *)

\* C8 as stated: a run in which the connection was refused or the publish
\* failed does not complete without a printed line reporting that failure.
C8_EveryFailureReported ==
    /\ \A i \in Refusals :
         \E j \in DOMAIN stdout :
             stdout[j] = [line |-> "Failed to connect, rc:", rc |-> trace[i].rc]
    /\ pc = "done" /\ (publishRc = "NO_CONN" \/ PublishWrites = 0) =>
         \E j \in DOMAIN stdout : stdout[j].line \notin KnownLines

----------------------------------------------------------------------------
(* C9 *)

----------------------------------------------------------------------------
(* C10 *)

\* C10: once connect() has returned, main() reaches "Done.", whatever the
\* broker does and however the loop thread interleaves.
C10_MainTerminates == (pc = "l35") ~> (pc = "done")

\* A finished run in which the broker never answered.
C10_Witness ==
    /\ pc = "done"
    /\ Calls("on_connect") = {}
    /\ brokerPos = 0

====
